---- MODULE Spec2Model ----
(***************************************************************************)
(* Model of the AuthRegistry contract (Sign-In with Ethereum) and of the   *)
(* transactions that call it.                                              *)
(*                                                                         *)
(* A transaction is executed by the EVM as one atomic step: a revert       *)
(* undoes every state change and every event of the call.  The contract's  *)
(* only storage is the mapping usedMessages; block.timestamp and           *)
(* block.chainid are supplied by the chain.                                *)
(***************************************************************************)
EXTENDS Integers, Sequences, FiniteSets, TLC

VARIABLES
    usedMessages,   \* mapping(bytes32 => bool): the set of hashes mapped to true
    now,            \* block.timestamp of the block being built
    chainid,        \* block.chainid of the chain the contract is deployed on
    events,         \* the event log of the contract, oldest first
    last,           \* the most recently executed authenticate call and its outcome
    accepted,       \* history: messageHash of every call that returned true, oldest first
    ncalls,         \* history: number of authenticate calls executed so far
    pending,        \* transactions in the mempool, not yet executed
    results,        \* history: outcome of every executed mempool transaction
    owner,          \* Ownable: the owner of the contract
    query,          \* the most recent isMessageUsed call and what it returned
    ui,             \* the React state of the SignInWithEthereum component
    run             \* the signAndSend invocation in progress: position and locals

vars == <<usedMessages, now, chainid, events, last, accepted, ncalls, pending,
          results, owner, query, ui, run>>

----------------------------------------------------------------------------
(* Bounds of the model *)

MaxCalls == 2           \* authenticate calls executed in one behaviour of Spec
MaxLedgerCalls == 4     \* authenticate calls executed in one behaviour of SpecLedger
MaxBatch == 3           \* identical transactions submitted together
MaxRegistryCalls == 3   \* authenticate calls executed in one behaviour of SpecRegistry
MaxQueries == 2         \* isMessageUsed calls made in one behaviour of SpecRegistry
MaxAttempts == 2        \* signAndSend invocations in one behaviour of SpecFrontend

(* Program constants *)

\* The timeout written as 5 hours.
MESSAGE_TIMEOUT_Hours == 5 * 3600

MESSAGE_TIMEOUT == 300      \* 5 minutes, in seconds

HardhatChainId == 31337
MainnetChainId == 1

----------------------------------------------------------------------------
(* Input universe *)

Accounts == {"user", "attacker"}

\* constructor() Ownable(msg.sender): the deploying account.
Deployer == "owner"
ZeroAddress == "0x0"
Senders == {"attacker", "owner"}
ChainIds == {HardhatChainId, MainnetChainId}
Nonces == {"n1", "n2"}

\* Block timestamps, and the <<issuedAt, expiresAt>> pairs a client may put
\* in a message.  At block time 610, <<600, 900>> is (now - 10, now + 290),
\* <<10, 310>> is (now - 600, now - 300), <<910, 1210>> is
\* (now + 300, now + 600) and <<610, 4210>> is (now, now + 3600);
\* <<600, 901>> is one second longer than the timeout, <<910, 4210>> is both
\* in the future and too long, and <<910, 310>> expires before it is issued.
BlockTimes == {610, 900, 910}
FirstBlockTime == CHOOSE t \in BlockTimes : \A u \in BlockTimes : t <= u

Windows ==
    {<<600, 900>>, <<10, 310>>, <<910, 1210>>, <<610, 4210>>,
     <<600, 901>>, <<910, 4210>>, <<910, 310>>}

\* The windows of the ledger specification: one valid in the first blocks
\* and expired in the last, one valid only in the last block.
LedgerWindows == {<<600, 900>>, <<910, 1210>>}

MessagesOver(chains, nonces, windows) ==
    {[domain |-> "localhost:5173",
      address_ |-> a,
      statement |-> "Sign in with Ethereum to prove you own this account.",
      uri |-> "http://localhost:5173",
      chainId |-> c,
      nonce |-> n,
      issuedAt |-> w[1],
      expiresAt |-> w[2]] :
        a \in Accounts, c \in chains, n \in nonces, w \in windows}

Messages == MessagesOver(ChainIds, Nonces, Windows)

LedgerMessages == MessagesOver({HardhatChainId}, {"n1"}, LedgerWindows)

----------------------------------------------------------------------------
(* Hashing and signatures *)

\* The encoding without the nonce.
abi_encode_WithoutNonce(message) ==
    << <<"string", message.domain>>, <<"address", message.address_>>,
       <<"string", message.statement>>, <<"string", message.uri>>,
       <<"uint256", message.chainId>>,
       <<"uint256", message.issuedAt>>, <<"uint256", message.expiresAt>> >>

\* abi.encode of the eight fields, in the order of the source, each with
\* the type the struct declares for it: the encoding of a tuple is
\* determined by the sequence of its typed values.
abi_encode(message) ==
    << <<"string", message.domain>>, <<"address", message.address_>>,
       <<"string", message.statement>>, <<"string", message.uri>>,
       <<"uint256", message.chainId>>, <<"bytes32", message.nonce>>,
       <<"uint256", message.issuedAt>>, <<"uint256", message.expiresAt>> >>

\* keccak256 is modelled as a collision-free tagging of its input.
keccak256(bytes) == <<"keccak256", bytes>>

messageHashOf(message) == keccak256(abi_encode(message))

\* ethers.AbiCoder.defaultAbiCoder().encode(types, values)
AbiCoder_encode(types, values) ==
    [i \in 1..Len(types) |-> <<types[i], values[i]>>]

\* The type list with the nonce declared as a number.
ClientTypes_NonceAsUint ==
    <<"string", "address", "string", "string", "uint256", "uint256",
      "uint256", "uint256">>

\* The type list the clients (frontend, test, scripts) pass to the coder.
ClientTypes ==
    <<"string", "address", "string", "string", "uint256", "bytes32",
      "uint256", "uint256">>

\* The value list the clients pass to the coder.
ClientValues(message) ==
    <<message.domain, message.address_, message.statement, message.uri,
      message.chainId, message.nonce, message.issuedAt, message.expiresAt>>

\* ethers.keccak256(AbiCoder.encode(...)): the hash a client computes.
clientMessageHash(message) ==
    keccak256(AbiCoder_encode(ClientTypes, ClientValues(message)))

\* keccak256(abi.encodePacked("\x19Ethereum Signed Message:\n32", messageHash))
ethSignedMessageHashOf(messageHash) ==
    keccak256(<<"\\x19Ethereum Signed Message:\\n32", messageHash>>)

\* signer.signMessage(getBytes(messageHash)): a 65-byte signature by
\* `account` over the prefixed digest of messageHash.
signMessage(account, messageHash) ==
    [signer |-> account, digest |-> ethSignedMessageHashOf(messageHash)]

\* A byte string that is no signature (wrong length, invalid v or s).
MalformedSignature == [signer |-> "none", digest |-> <<"malformed">>]

\* Address recovered from a well-formed signature over another digest: an
\* address that no message of the model claims.
UnrelatedAddress == "unrelated"

RecoverError == "ECDSAInvalidSignature"

\* The signing account returned whatever digest was signed.
ECDSA_recover_AnyDigest(hash, signature) ==
    IF signature = MalformedSignature THEN RecoverError
    ELSE signature.signer

\* ECDSA.recover(hash, signature): the signing account for a signature over
\* `hash`, RecoverError (a revert) for a byte string that is no signature.
ECDSA_recover(hash, signature) ==
    IF signature = MalformedSignature THEN RecoverError
    ELSE IF signature.digest = hash THEN signature.signer
    ELSE UnrelatedAddress

----------------------------------------------------------------------------
(* AuthRegistry.authenticate *)

\* The issuedAt check left out.
IssuedInPast_Skipped(message, timestamp) == TRUE

\* require(block.timestamp >= message.issuedAt, "Message not yet valid")
IssuedInPast(message, timestamp) == timestamp >= message.issuedAt

\* The expiry comparison reversed.
NotExpired_Reversed(message, timestamp) == timestamp >= message.expiresAt

\* The expiry check left out.
NotExpired_Skipped(message, timestamp) == TRUE

\* require(block.timestamp <= message.expiresAt, "Message expired")
NotExpired(message, timestamp) == timestamp <= message.expiresAt

\* The window check made strict.
WindowWithinTimeout_Strict(message) ==
    message.expiresAt - message.issuedAt < MESSAGE_TIMEOUT

\* require(message.expiresAt - message.issuedAt <= MESSAGE_TIMEOUT, "Expiry too long")
WindowWithinTimeout(message) ==
    message.expiresAt - message.issuedAt <= MESSAGE_TIMEOUT

\* The chain check left out.
ChainMatches_Skipped(message, chain) == TRUE

\* require(block.chainid == message.chainId, "Invalid chain")
ChainMatches(message, chain) == chain = message.chainId

\* The replay check left out.
NotUsed_Skipped(used, messageHash) == TRUE

\* require(!usedMessages[messageHash], "Message already used")
NotUsed(used, messageHash) == messageHash \notin used

\* Any recovered signer taken for the claimed account.
SignerMatches_AnySigner(signer, message) == signer # RecoverError

\* require(signer == message.address_, "Invalid signature")
SignerMatches(signer, message) == signer = message.address_

\* The mark written under the signed digest instead of messageHash.
MarkUsed_WrongKey(used, messageHash) ==
    used \cup {ethSignedMessageHashOf(messageHash)}

\* The mapping kept as a single slot holding the latest hash.
MarkUsed_Overwrite(used, messageHash) == {messageHash}

\* The mark never written.
MarkUsed_NoWrite(used, messageHash) == used

\* usedMessages[messageHash] = true
MarkUsed(used, messageHash) == used \cup {messageHash}

\* The event carrying the message's issuedAt as its timestamp.
AuthSuccess_IssuedAt(message, messageHash, timestamp) ==
    [name |-> "AuthSuccess", user |-> message.address_,
     messageHash |-> messageHash, timestamp |-> message.issuedAt]

\* emit AuthSuccess(message.address_, messageHash, block.timestamp)
AuthSuccess(message, messageHash, timestamp) ==
    [name |-> "AuthSuccess", user |-> message.address_,
     messageHash |-> messageHash, timestamp |-> timestamp]

\* A reverted call: storage as before the call, no event.
Revert(reason, used) ==
    [ok |-> FALSE, reason |-> reason, usedMessages |-> used, emitted |-> <<>>]

\* The mark written before the signature check, and a failed signature
\* check returning false instead of reverting.
authenticate_MarkFirst(sender, message, signature, used, timestamp, chain) ==
    LET messageHash == messageHashOf(message)
        signer == ECDSA_recover(ethSignedMessageHashOf(messageHash), signature)
    IN  IF ~IssuedInPast(message, timestamp)
            THEN Revert("Message not yet valid", used)
        ELSE IF ~NotExpired(message, timestamp)
            THEN Revert("Message expired", used)
        ELSE IF message.expiresAt < message.issuedAt
            THEN Revert("Panic(0x11)", used)
        ELSE IF ~WindowWithinTimeout(message)
            THEN Revert("Expiry too long", used)
        ELSE IF ~ChainMatches(message, chain)
            THEN Revert("Invalid chain", used)
        ELSE IF ~NotUsed(used, messageHash)
            THEN Revert("Message already used", used)
        ELSE IF signer = RecoverError \/ ~SignerMatches(signer, message)
            THEN [ok |-> FALSE, reason |-> "Invalid signature",
                  usedMessages |-> MarkUsed(used, messageHash),
                  emitted |-> <<>>]
        ELSE [ok |-> TRUE, reason |-> "",
              usedMessages |-> MarkUsed(used, messageHash),
              emitted |-> <<AuthSuccess(message, messageHash, timestamp)>>]

\* The signature verified before the replay check.
authenticate_SignatureFirst(sender, message, signature, used, timestamp, chain) ==
    LET messageHash == messageHashOf(message)
        signer == ECDSA_recover(ethSignedMessageHashOf(messageHash), signature)
    IN  IF ~IssuedInPast(message, timestamp)
            THEN Revert("Message not yet valid", used)
        ELSE IF ~NotExpired(message, timestamp)
            THEN Revert("Message expired", used)
        ELSE IF message.expiresAt < message.issuedAt
            THEN Revert("Panic(0x11)", used)
        ELSE IF ~WindowWithinTimeout(message)
            THEN Revert("Expiry too long", used)
        ELSE IF ~ChainMatches(message, chain)
            THEN Revert("Invalid chain", used)
        ELSE IF signer = RecoverError
            THEN Revert(RecoverError, used)
        ELSE IF ~SignerMatches(signer, message)
            THEN Revert("Invalid signature", used)
        ELSE IF ~NotUsed(used, messageHash)
            THEN Revert("Message already used", used)
        ELSE [ok |-> TRUE, reason |-> "",
              usedMessages |-> MarkUsed(used, messageHash),
              emitted |-> <<AuthSuccess(message, messageHash, timestamp)>>]

\* Only the claimed account allowed to submit its message.
authenticate_OnlyClaimedSender(sender, message, signature, used, timestamp, chain) ==
    LET messageHash == messageHashOf(message)
        signer == ECDSA_recover(ethSignedMessageHashOf(messageHash), signature)
    IN  IF ~IssuedInPast(message, timestamp)
            THEN Revert("Message not yet valid", used)
        ELSE IF ~NotExpired(message, timestamp)
            THEN Revert("Message expired", used)
        ELSE IF message.expiresAt < message.issuedAt
            THEN Revert("Panic(0x11)", used)
        ELSE IF ~WindowWithinTimeout(message)
            THEN Revert("Expiry too long", used)
        ELSE IF ~ChainMatches(message, chain)
            THEN Revert("Invalid chain", used)
        ELSE IF ~NotUsed(used, messageHash)
            THEN Revert("Message already used", used)
        ELSE IF signer = RecoverError
            THEN Revert(RecoverError, used)
        ELSE IF ~SignerMatches(signer, message) \/ sender # message.address_
            THEN Revert("Invalid signature", used)
        ELSE [ok |-> TRUE, reason |-> "",
              usedMessages |-> MarkUsed(used, messageHash),
              emitted |-> <<AuthSuccess(message, messageHash, timestamp)>>]

\* The whole function, from the state before the call to its outcome.
\* `sender` is msg.sender, which the function does not read.
authenticate(sender, message, signature, used, timestamp, chain) ==
    LET messageHash == messageHashOf(message)
        signer == ECDSA_recover(ethSignedMessageHashOf(messageHash), signature)
    IN  IF ~IssuedInPast(message, timestamp)
            THEN Revert("Message not yet valid", used)
        ELSE IF ~NotExpired(message, timestamp)
            THEN Revert("Message expired", used)
        ELSE IF message.expiresAt < message.issuedAt
            THEN Revert("Panic(0x11)", used)
        ELSE IF ~WindowWithinTimeout(message)
            THEN Revert("Expiry too long", used)
        ELSE IF ~ChainMatches(message, chain)
            THEN Revert("Invalid chain", used)
        ELSE IF ~NotUsed(used, messageHash)
            THEN Revert("Message already used", used)
        ELSE IF signer = RecoverError
            THEN Revert(RecoverError, used)
        ELSE IF ~SignerMatches(signer, message)
            THEN Revert("Invalid signature", used)
        ELSE [ok |-> TRUE, reason |-> "",
              usedMessages |-> MarkUsed(used, messageHash),
              emitted |-> <<AuthSuccess(message, messageHash, timestamp)>>]

\* AuthRegistry.isMessageUsed
isMessageUsed(used, messageHash) == messageHash \in used

\* The query marking the hash it is asked about.
isMessageUsedCall_Marks(used, messageHash) ==
    [returned |-> isMessageUsed(used, messageHash),
     usedMessages |-> used \cup {messageHash}]

\* A call of the view isMessageUsed: what it returns and the storage it
\* leaves.
isMessageUsedCall(used, messageHash) ==
    [returned |-> isMessageUsed(used, messageHash), usedMessages |-> used]

\* Ownable.transferOwnership(newOwner) onlyOwner: the owner after the call;
\* a call by another account or to the zero address reverts.
transferOwnership(sender, newOwner, currentOwner) ==
    IF sender # currentOwner THEN currentOwner
    ELSE IF newOwner = ZeroAddress THEN currentOwner
    ELSE newOwner

\* Ownable.renounceOwnership() onlyOwner: the owner after the call.
renounceOwnership(sender, currentOwner) ==
    IF sender # currentOwner THEN currentOwner ELSE ZeroAddress

----------------------------------------------------------------------------
(* State machine *)

NoCall == [made |-> FALSE]
NoBatch == [count |-> 0]
NoQuery == [made |-> FALSE, count |-> 0]

OtherNonce(message) ==
    [message EXCEPT !.nonce = CHOOSE n \in Nonces : n # message.nonce]

\* The signatures a caller presents with `message`: by either account over
\* the message, by the claimed account over the message with the other
\* nonce, or a byte string that is no signature.
SignaturesFor(message) ==
    {signMessage(a, messageHashOf(message)) : a \in Accounts}
    \cup {signMessage(message.address_, messageHashOf(OtherNonce(message)))}
    \cup {MalformedSignature}

\* The record kept of an executed call.  `previous` is the outcome of the
\* call executed just before it when that call carried the same
\* (message, signature) pair.
CallRecord(sender, message, signature, used, timestamp, chain, r, before) ==
    [made |-> TRUE, sender |-> sender, message |-> message,
     signature |-> signature, timestamp |-> timestamp, chain |-> chain,
     wasUsed |-> isMessageUsed(used, messageHashOf(message)),
     ok |-> r.ok, reason |-> r.reason,
     previous |->
        IF before.made /\ before.message = message
                       /\ before.signature = signature
        THEN [made |-> TRUE, ok |-> before.ok, reason |-> before.reason,
              timestamp |-> before.timestamp, wasUsed |-> before.wasUsed]
        ELSE [made |-> FALSE]]

\* useState defaults of the component, with the wallet connected and the
\* contract address set (the Sign & Authenticate button is enabled).
\* hasProvider, hasAddress and hasContractAddress say whether `provider`,
\* `address` and `addrInput || contractAddress` are set.
Null == [null |-> TRUE]

InitialUi ==
    [status |-> [message |-> <<"Wallet connected successfully">>, type |-> "success"],
     isLoading |-> FALSE,
     testScenario |-> "normal",
     customExpiryMinutes |-> 5,
     lastMessage |-> Null,
     lastSignature |-> Null,
     hasProvider |-> TRUE,
     hasAddress |-> TRUE,
     hasContractAddress |-> TRUE]

\* No signAndSend invocation is running; `attempts` counts the invocations
\* made and `receipt` is the receipt the last one got, if any.
NoReceipt == [status |-> -1]
Idle ==
    [pc |-> "idle", attempts |-> 0, receipt |-> NoReceipt,
     testScenario |-> "normal", customExpiryMinutes |-> 5,
     lastMessage |-> Null, lastSignature |-> Null,
     message |-> Null, signature |-> Null]

Init ==
    /\ usedMessages = {}
    /\ now = FirstBlockTime
    /\ chainid = HardhatChainId
    /\ events = <<>>
    /\ last = NoCall
    /\ accepted = <<>>
    /\ ncalls = 0
    /\ pending = NoBatch
    /\ results = <<>>
    /\ owner = Deployer
    /\ query = NoQuery
    /\ ui = InitialUi
    /\ run = Idle

\* One transaction calling authenticate, executed atomically by the EVM.
Execute(sender, message, signature) ==
    LET r == authenticate(sender, message, signature, usedMessages, now, chainid)
    IN  /\ usedMessages' = r.usedMessages
        /\ events' = events \o r.emitted
        /\ last' = CallRecord(sender, message, signature, usedMessages, now,
                              chainid, r, last)
        /\ accepted' = IF r.ok THEN Append(accepted, messageHashOf(message)) ELSE accepted
        /\ ncalls' = ncalls + 1

\* A transaction that is mined as soon as it is sent.
Authenticate ==
    /\ ncalls < MaxCalls
    /\ \E sender \in Senders, message \in Messages :
         \E signature \in SignaturesFor(message) :
            Execute(sender, message, signature)
    /\ UNCHANGED <<now, chainid, pending, results, owner, query,
                   ui, run>>

\* A later block: block.timestamp grows.
Tick ==
    /\ \E t \in BlockTimes : t > now /\ now' = t
    /\ UNCHANGED <<usedMessages, chainid, events, last, accepted, ncalls, pending,
                   results, owner, query,
                   ui, run>>

Next == Authenticate \/ Tick

Spec == Init /\ [][Next]_vars

----------------------------------------------------------------------------
(* The ledger under concurrent submission *)

\* The signatures of the ledger specification: by either account over the
\* message.
LedgerSignaturesFor(message) ==
    {signMessage(a, messageHashOf(message)) : a \in Accounts}

\* A transaction outside any batch, mined as soon as it is sent.
AuthenticateLedger ==
    /\ ncalls < MaxLedgerCalls
    /\ \E sender \in Senders, message \in LedgerMessages :
         \E signature \in LedgerSignaturesFor(message) :
            Execute(sender, message, signature)
    /\ UNCHANGED <<now, chainid, pending, results, owner, query,
                   ui, run>>

\* count clients send the identical (message, signature) pair at once; the
\* transactions wait in the mempool.
SubmitBatch ==
    /\ pending.count = 0
    /\ \E message \in LedgerMessages, count \in 2..MaxBatch :
         \E signature \in LedgerSignaturesFor(message) :
            /\ ncalls + count <= MaxLedgerCalls
            /\ pending' = [count |-> count, size |-> count,
                           message |-> message, signature |-> signature]
    /\ results' = <<>>
    /\ UNCHANGED <<usedMessages, now, chainid, events, last, accepted, ncalls,
                   owner, query,
                   ui, run>>

\* The chain mines one of the waiting transactions.
ExecutePending ==
    /\ pending.count > 0
    /\ \E sender \in Senders :
         /\ Execute(sender, pending.message, pending.signature)
         /\ results' = Append(results,
               LET r == authenticate(sender, pending.message, pending.signature,
                                     usedMessages, now, chainid)
               IN  [ok |-> r.ok, reason |-> r.reason, timestamp |-> now,
                    wasUsed |-> isMessageUsed(usedMessages,
                                              messageHashOf(pending.message))])
    /\ pending' = [pending EXCEPT !.count = @ - 1]
    /\ UNCHANGED <<now, chainid, owner, query,
                   ui, run>>

NextLedger == AuthenticateLedger \/ SubmitBatch \/ ExecutePending \/ Tick

SpecLedger == Init /\ [][NextLedger]_vars

----------------------------------------------------------------------------
(* Every external function of the contract *)

\* A transaction calling authenticate, mined as soon as it is sent.
AuthenticateRegistry ==
    /\ ncalls < MaxRegistryCalls
    /\ \E sender \in Senders, message \in LedgerMessages :
         \E signature \in LedgerSignaturesFor(message) :
            Execute(sender, message, signature)
    /\ UNCHANGED <<now, chainid, pending, results, owner, query,
                   ui, run>>

\* A client computes the hash of a message and asks isMessageUsed for it.
IsMessageUsed ==
    /\ query.count < MaxQueries
    /\ \E message \in LedgerMessages :
         LET id == clientMessageHash(message)
             r == isMessageUsedCall(usedMessages, id)
         IN  /\ query' = [made |-> TRUE, count |-> query.count + 1,
                          message |-> message, id |-> id,
                          returned |-> r.returned]
             /\ usedMessages' = r.usedMessages
    /\ UNCHANGED <<now, chainid, events, last, accepted, ncalls, pending,
                   results, owner,
                   ui, run>>

TransferOwnership ==
    /\ \E sender \in Senders, newOwner \in Accounts \cup {ZeroAddress} :
         owner' = transferOwnership(sender, newOwner, owner)
    /\ UNCHANGED <<usedMessages, now, chainid, events, last, accepted, ncalls,
                   pending, results, query,
                   ui, run>>

RenounceOwnership ==
    /\ \E sender \in Senders : owner' = renounceOwnership(sender, owner)
    /\ UNCHANGED <<usedMessages, now, chainid, events, last, accepted, ncalls,
                   pending, results, query,
                   ui, run>>

NextRegistry ==
    \/ AuthenticateRegistry
    \/ IsMessageUsed
    \/ TransferOwnership
    \/ RenounceOwnership
    \/ Tick

SpecRegistry == Init /\ [][NextRegistry]_vars

----------------------------------------------------------------------------
(* The frontend: SignInWithEthereum.signAndSend *)

PolygonChainId == 137

\* The account of the connected wallet, and the address the
\* 'invalid_signature' scenario claims instead.
ConnectedAccount == "user"
InvalidSignatureAddress == "0x0000000000000000000000000000000000000001"

Scenarios ==
    {"normal", "expired", "future", "wrong_chain", "invalid_signature",
     "replay_attack"}

\* Values of the Custom Expiry input (min 1, max 60, default 5).
ExpiryChoices == {1, 5, 60}

\* makeNonce(): 32 random bytes, a fresh value for every invocation.
makeNonce(attempt) == <<"n1", "n2", "n3", "n4">>[attempt]

\* The scenario reuses the stored pair.
ReusesLast(scenario, lastMessage, lastSignature) ==
    scenario = "replay_attack" /\ lastMessage # Null /\ lastSignature # Null

\* The message signAndSend builds for the scenario.
BuildMessage(scenario, addr, chain, clock, expiryMinutes, nonce, lastMessage, lastSignature) ==
    IF ReusesLast(scenario, lastMessage, lastSignature) THEN lastMessage
    ELSE [domain |-> "localhost:5173",
          address_ |-> IF scenario = "invalid_signature"
                       THEN InvalidSignatureAddress ELSE addr,
          statement |-> "Sign in with Ethereum to prove you own this account.",
          uri |-> "http://localhost:5173",
          chainId |-> IF scenario = "wrong_chain"
                      THEN (IF chain = MainnetChainId THEN PolygonChainId
                            ELSE MainnetChainId)
                      ELSE chain,
          nonce |-> nonce,
          issuedAt |-> IF scenario = "expired" THEN clock - 600
                       ELSE IF scenario = "future" THEN clock + 300
                       ELSE clock,
          expiresAt |-> IF scenario = "expired" THEN clock - 300
                        ELSE IF scenario = "future" THEN clock + 600
                        ELSE clock + expiryMinutes * 60]

\* Errors thrown to signAndSend.  A string the handler takes apart is the
\* sequence of the phrases it looks for; the empty sequence stands for
\* null, undefined and "", which are all falsy.  An error object has the
\* properties the handler reads: reason, message, error (a nested error
\* object or null) and data (the revert data or null); `library` tells an
\* error object built by ethers from a plain Error.
NoReason == <<>>

\* The selector of Error(string), and the selector of a custom error.
ErrorStringSelector == "0x08c379a0"
CustomErrorSelector == "0xf645eedf"

\* Revert data: the selector and the string that decodes from the rest.
RevertData(selector, decoded) == [selector |-> selector, decoded |-> decoded]

ErrorObject(reason, message, nested, data, library) ==
    [reason |-> reason, message |-> message, error |-> nested, data |-> data,
     library |-> library]

\* The error of a call that reverts: with a reason string the library sets
\* the reason property; a custom error or a panic has no reason.
RevertError(reason) ==
    IF reason \in {"Message not yet valid", "Message expired", "Expiry too long",
                   "Invalid chain", "Message already used", "Invalid signature"}
    THEN ErrorObject(<<reason>>,
                     <<"execution reverted: ", reason, " (action=estimateGas)">>,
                     Null, RevertData(ErrorStringSelector, <<reason>>), TRUE)
    ELSE ErrorObject(NoReason,
                     <<"execution reverted (unknown custom error)",
                       " (action=estimateGas)">>,
                     Null, RevertData(CustomErrorSelector, NoReason), TRUE)

WaitError ==
    ErrorObject(NoReason, <<"transaction execution reverted">>, Null, Null, TRUE)
RejectedError ==
    ErrorObject(<<"rejected">>, <<"user rejected", " action">>, Null, Null, TRUE)
FundsError ==
    ErrorObject(NoReason, <<"insufficient funds">>, Null, Null, TRUE)
StatusZeroError ==
    ErrorObject(NoReason, <<"Transaction reverted - authentication failed">>,
                Null, Null, FALSE)

\* fullMessage.includes(phrase)
Includes(message, phrase) == \E i \in 1..Len(message) : message[i] = phrase

\* message.match(/reverted with reason string '([^']+)'/): the positions
\* where the pattern starts.
ReasonStringMatches(message) ==
    {i \in 1..Len(message) :
        /\ message[i] = "reverted with reason string '"
        /\ i + 2 <= Len(message)
        /\ message[i + 2] = "'"}

\* message.match(/execution reverted: (.+)/): the positions where the
\* pattern starts; the group takes the rest of the message.
ExecutionRevertedMatches(message) ==
    {i \in 1..Len(message) :
        message[i] = "execution reverted: " /\ i < Len(message)}

First(positions) == CHOOSE i \in positions : \A j \in positions : i <= j

RECURSIVE extractRevertReason(_)
\* extractRevertReason: the reason property, else the reason found in the
\* message by one of the two patterns, else that of the nested error, else
\* the string decoded from Error(string) data, else null.
extractRevertReason(errorObj) ==
    IF errorObj.reason # NoReason THEN errorObj.reason
    ELSE IF ReasonStringMatches(errorObj.message) # {}
         THEN <<errorObj.message[First(ReasonStringMatches(errorObj.message)) + 1]>>
    ELSE IF ExecutionRevertedMatches(errorObj.message) # {}
         THEN SubSeq(errorObj.message,
                     First(ExecutionRevertedMatches(errorObj.message)) + 1,
                     Len(errorObj.message))
    ELSE IF errorObj.error # Null THEN extractRevertReason(errorObj.error)
    ELSE IF errorObj.data # Null /\ errorObj.data.selector = ErrorStringSelector
         THEN errorObj.data.decoded
    ELSE NoReason

\* Every revert reason reported as an expired message.
userMessage_AlwaysExpired(revertReason) ==
    <<"Message expired - the authentication window has passed">>

\* The switch over the revert reason.
userMessage(revertReason) ==
    CASE revertReason = <<"Message expired">> ->
            <<"Message expired - the authentication window has passed">>
      [] revertReason = <<"Message not yet valid">> ->
            <<"Message not yet valid - issued time is in the future">>
      [] revertReason = <<"Invalid chain">> ->
            <<"Invalid chain - message was signed for a different blockchain">>
      [] revertReason = <<"Message already used">> ->
            <<"Message already used - this is a replay attack attempt">>
      [] revertReason = <<"Invalid signature">> ->
            <<"Invalid signature - signature doesn't match the message or address">>
      [] revertReason = <<"Expiry too long">> ->
            <<"Expiry too long - maximum allowed is 5 minutes">>
      [] OTHER -> <<"Contract error: ">> \o revertReason

\* The fallback: the substring search over the error message.
fallbackMessage(fullMessage) ==
    IF Includes(fullMessage, "Message expired") THEN
        <<"Message expired - the authentication window has passed">>
    ELSE IF Includes(fullMessage, "Message not yet valid") THEN
        <<"Message not yet valid - issued time is in the future">>
    ELSE IF Includes(fullMessage, "Invalid chain") THEN
        <<"Invalid chain - message was signed for a different blockchain">>
    ELSE IF Includes(fullMessage, "Message already used") THEN
        <<"Message already used - this is a replay attack attempt">>
    ELSE IF Includes(fullMessage, "Invalid signature") THEN
        <<"Invalid signature - signature doesn't match the message or address">>
    ELSE IF Includes(fullMessage, "Expiry too long") THEN
        <<"Expiry too long - maximum allowed is 5 minutes">>
    ELSE IF Includes(fullMessage, "insufficient funds") THEN
        <<"Insufficient funds - account doesn't have enough ETH for gas">>
    ELSE IF Includes(fullMessage, "user rejected") THEN
        <<"Transaction rejected by user">>
    ELSE IF fullMessage # <<>> THEN fullMessage
    ELSE <<"Unknown transaction error">>

\* The message shown for a contract error.
errorMessageOf(contractError) ==
    LET revertReason == extractRevertReason(contractError)
    IN  IF revertReason # NoReason THEN userMessage(revertReason)
        ELSE fallbackMessage(contractError.message)

SuccessStatus == [message |-> <<"Successfully authenticated!">>, type |-> "success"]
SubmittingStatus == [message |-> <<"Submitting to contract...">>, type |-> "info"]

\* The outer catch: setStatus("Transaction failed: " + e.message, error).
FailedStatus(message) ==
    [message |-> <<"Transaction failed: ">> \o message, type |-> "error"]

\* The success message shown for every mined transaction.
receiptSucceeded_AnyMined(receipt) == TRUE

\* if (receipt.status === 1)
receiptSucceeded(receipt) == receipt.status = 1

\* The invocation ends: its locals are dropped, its receipt is remembered.
Finished(receipt) ==
    [Idle EXCEPT !.attempts = run.attempts, !.receipt = receipt]

\* The outer catch without the finally block.
OuterCatch_NoFinally(message) ==
    /\ ui' = [ui EXCEPT !.status = FailedStatus(message)]
    /\ run' = Finished(run.receipt)

\* The outer catch and the finally block, for an error with `message`.
OuterCatch(message) ==
    /\ ui' = [ui EXCEPT !.status = FailedStatus(message), !.isLoading = FALSE]
    /\ run' = Finished(run.receipt)

\* The inner catch, which rethrows to the outer one.  JSON.stringify of a
\* library error that carries a bigint throws before the reason is parsed.
InnerCatch(contractError) ==
    \/ OuterCatch(errorMessageOf(contractError))
    \/ /\ contractError.library
       /\ OuterCatch(<<"Do not know how to serialize a BigInt">>)

ChainUnchanged ==
    UNCHANGED <<usedMessages, now, chainid, events, last, accepted, ncalls,
                pending, results, owner, query>>

\* The user picks a test scenario.
SelectScenario ==
    /\ run.pc = "idle"
    /\ \E scenario \in Scenarios \ {ui.testScenario} :
         ui' = [ui EXCEPT !.testScenario = scenario]
    /\ UNCHANGED run
    /\ ChainUnchanged

\* The user sets the custom expiry.
SetCustomExpiry ==
    /\ run.pc = "idle"
    /\ \E minutes \in ExpiryChoices \ {ui.customExpiryMinutes} :
         ui' = [ui EXCEPT !.customExpiryMinutes = minutes]
    /\ UNCHANGED run
    /\ ChainUnchanged

\* The status of the early return.
ConnectStatus ==
    [message |-> <<"Connect wallet and set contract address">>, type |-> "error"]

\* disabled={!address || !(addrInput || contractAddress) || isLoading}
ButtonEnabled ==
    ui.hasAddress /\ ui.hasContractAddress /\ ~ui.isLoading

\* The entry of signAndSend, with the state of the current render: the
\* early return, or setIsLoading(true) and the try block.
signAndSendEntry ==
    IF ~ui.hasProvider \/ ~ui.hasContractAddress
    THEN /\ ui' = [ui EXCEPT !.status = ConnectStatus]
         /\ run' = [Idle EXCEPT !.attempts = run.attempts + 1]
    ELSE /\ ui' = [ui EXCEPT !.isLoading = TRUE]
         /\ run' = [pc |-> "prepare", attempts |-> run.attempts + 1,
                    receipt |-> NoReceipt,
                    testScenario |-> ui.testScenario,
                    customExpiryMinutes |-> ui.customExpiryMinutes,
                    lastMessage |-> ui.lastMessage,
                    lastSignature |-> ui.lastSignature,
                    message |-> Null, signature |-> Null]

\* The user clicks Sign & Authenticate.
Click ==
    /\ run.pc = "idle"
    /\ ButtonEnabled
    /\ run.attempts < MaxAttempts
    /\ signAndSendEntry
    /\ ChainUnchanged

\* getSigner, getAddress, getNetwork and the construction of the message;
\* a provider call may fail.
Prepare ==
    /\ run.pc = "prepare"
    /\ \/ OuterCatch(<<"provider call failed">>)
       \/ /\ run' = [run EXCEPT
                 !.pc = "sign",
                 !.message = BuildMessage(run.testScenario, ConnectedAccount,
                                chainid, now, run.customExpiryMinutes,
                                makeNonce(run.attempts),
                                run.lastMessage, run.lastSignature)]
          /\ UNCHANGED ui
    /\ ChainUnchanged

\* The signature: the stored one for a replay, else the wallet signs the
\* hash (or the user refuses) and the signature is stored.
Sign ==
    /\ run.pc = "sign"
    /\ IF ReusesLast(run.testScenario, run.lastMessage, run.lastSignature)
       THEN /\ run' = [run EXCEPT !.pc = "balance",
                                  !.signature = run.lastSignature]
            /\ UNCHANGED ui
       ELSE \/ OuterCatch(<<"user rejected action">>)
            \/ LET signature == signMessage(ConnectedAccount,
                                            clientMessageHash(run.message))
               IN  /\ run' = [run EXCEPT !.pc = "balance",
                                         !.signature = signature]
                   /\ ui' = [ui EXCEPT !.lastSignature = signature]
    /\ ChainUnchanged

\* getBalance, then the status 'Submitting to contract...'.
CheckBalance ==
    /\ run.pc = "balance"
    /\ \/ OuterCatch(<<"provider call failed">>)
       \/ /\ ui' = [ui EXCEPT !.status = SubmittingStatus]
          /\ run' = [run EXCEPT !.pc = "send"]
    /\ ChainUnchanged

\* contract.authenticate(message, signature): the call is refused before
\* it is sent (it would revert, the user refuses it, the account has no
\* funds) or the transaction is sent.
Send ==
    /\ run.pc = "send"
    /\ LET r == authenticate(ConnectedAccount, run.message, run.signature,
                             usedMessages, now, chainid)
       IN  \/ ~r.ok /\ InnerCatch(RevertError(r.reason))
           \/ InnerCatch(RejectedError)
           \/ InnerCatch(FundsError)
           \/ run' = [run EXCEPT !.pc = "wait"] /\ UNCHANGED ui
    /\ ChainUnchanged

\* The chain mines the transaction.
Mine ==
    /\ run.pc = "wait"
    /\ Execute(ConnectedAccount, run.message, run.signature)
    /\ LET r == authenticate(ConnectedAccount, run.message, run.signature,
                             usedMessages, now, chainid)
       IN  run' = [run EXCEPT !.pc = "mined",
                              !.receipt = [status |-> IF r.ok THEN 1 ELSE 0]]
    /\ UNCHANGED <<now, chainid, pending, results, owner, query, ui>>

\* tx.wait() returns the receipt or throws for a reverted transaction; the
\* handler then looks at receipt.status.
Receipt ==
    /\ run.pc = "mined"
    /\ \/ run.receipt.status = 0 /\ InnerCatch(WaitError)
       \/ IF receiptSucceeded(run.receipt)
          THEN /\ ui' = [ui EXCEPT
                     !.status = SuccessStatus,
                     !.lastMessage = IF run.testScenario # "replay_attack"
                                     THEN run.message ELSE @,
                     !.lastSignature = IF run.testScenario # "replay_attack"
                                       THEN run.signature ELSE @,
                     !.isLoading = FALSE]
               /\ run' = Finished(run.receipt)
          ELSE InnerCatch(StatusZeroError)
    /\ ChainUnchanged

NextFrontend ==
    \/ SelectScenario
    \/ SetCustomExpiry
    \/ Click
    \/ Prepare
    \/ Sign
    \/ CheckBalance
    \/ Send
    \/ Mine
    \/ Receipt
    \/ Tick

SpecFrontend == Init /\ [][NextFrontend]_vars

----------------------------------------------------------------------------
(* signAndSend from every state of the component *)

\* The component with or without a wallet provider, a connected account
\* and a contract address, in each scenario.  connect() sets the address
\* only when there is a provider.
LoadingUis ==
    {[InitialUi EXCEPT !.status = [message |-> <<"">>, type |-> "info"],
                       !.hasProvider = p, !.hasAddress = a,
                       !.hasContractAddress = c,
                       !.testScenario = scenario,
                       !.customExpiryMinutes = minutes] :
        p \in BOOLEAN, a \in BOOLEAN, c \in BOOLEAN,
        scenario \in Scenarios, minutes \in ExpiryChoices}

InitLoading ==
    /\ usedMessages = {}
    /\ now = FirstBlockTime
    /\ chainid = HardhatChainId
    /\ events = <<>>
    /\ last = NoCall
    /\ accepted = <<>>
    /\ ncalls = 0
    /\ pending = NoBatch
    /\ results = <<>>
    /\ owner = Deployer
    /\ query = NoQuery
    /\ ui \in {u \in LoadingUis : u.hasAddress => u.hasProvider}
    /\ run = Idle

\* signAndSend is called, whatever the state of the button.
Invoke ==
    /\ run.pc = "idle"
    /\ run.attempts < MaxAttempts
    /\ signAndSendEntry
    /\ ChainUnchanged

\* The awaited call of a running invocation settles and the function goes
\* on to its next await or to its end.
Settle == Prepare \/ Sign \/ CheckBalance \/ Send \/ Mine \/ Receipt

NextLoading == Invoke \/ Settle \/ Tick

\* Every promise the function awaits is settled in the end.
SpecLoading == InitLoading /\ [][NextLoading]_vars /\ WF_vars(Settle)

----------------------------------------------------------------------------
(* The demo script *)

\* const expiresAt = issuedAt + 3600; // 1 hour
DemoExpirySeconds == 3600

\* The window of the message the script builds at client time `clock`.
DemoWindow(clock) == <<clock, clock + DemoExpirySeconds>>

----------------------------------------------------------------------------
(* The report of a contract error *)

\* The six reasons of the contract's requires and a reason of another
\* contract.
RevertReasons ==
    {"Message not yet valid", "Message expired", "Expiry too long",
     "Invalid chain", "Message already used", "Invalid signature",
     "Ownable: caller is not the owner"}

\* The reason in the message only, in the form of a node ('execution
\* reverted: R'), of the Hardhat network ('reverted with reason string'),
\* in a form neither pattern matches, and followed by more text.
MessageOnlyErrors ==
    {ErrorObject(NoReason, message, Null, Null, TRUE) :
        message \in
            UNION {{<<"execution reverted: ", r>>,
                    <<"VM Exception while processing transaction: ",
                      "reverted with reason string '", r, "'">>,
                    <<"transaction failed: ", r>>,
                    <<"execution reverted: ", r, " (action=estimateGas)">>} :
                   r \in RevertReasons}}

\* The reason in a nested error, and the reason in the revert data only.
NestedErrors ==
    {ErrorObject(NoReason, <<"Internal JSON-RPC error.">>,
                 ErrorObject(NoReason, <<"execution reverted: ", r>>, Null, Null, TRUE),
                 Null, TRUE) : r \in RevertReasons}

DataErrors ==
    {ErrorObject(NoReason, <<"missing revert data">>, Null,
                 RevertData(ErrorStringSelector, <<r>>), TRUE) : r \in RevertReasons}

\* A reason property beside a message that names another reason, and a
\* message that names two reasons.
MixedErrors ==
    UNION {{ErrorObject(<<r>>, <<"execution reverted: ", q>>, Null, Null, TRUE),
            ErrorObject(NoReason, <<"transaction failed: ", r, " / ", q>>,
                        Null, Null, TRUE)} :
           r \in RevertReasons, q \in RevertReasons}

ContractErrors ==
    {RevertError(r) : r \in RevertReasons \cup {RecoverError}}
    \cup MessageOnlyErrors \cup NestedErrors \cup DataErrors \cup MixedErrors
    \cup {WaitError, RejectedError, FundsError, StatusZeroError,
          ErrorObject(NoReason, <<>>, Null, Null, FALSE),
          ErrorObject(NoReason, <<"missing revert data">>, Null,
                      RevertData(ErrorStringSelector, NoReason), TRUE)}

\* The inner catch has caught contractError.
Caught(contractError) ==
    [pc |-> "caught", attempts |-> 1, receipt |-> NoReceipt,
     contractError |-> contractError]

InitErrorReport ==
    /\ usedMessages = {}
    /\ now = FirstBlockTime
    /\ chainid = HardhatChainId
    /\ events = <<>>
    /\ last = NoCall
    /\ accepted = <<>>
    /\ ncalls = 0
    /\ pending = NoBatch
    /\ results = <<>>
    /\ owner = Deployer
    /\ query = NoQuery
    /\ ui = [InitialUi EXCEPT !.status = SubmittingStatus, !.isLoading = TRUE]
    /\ \E contractError \in ContractErrors : run = Caught(contractError)

\* The mapping of the caught error to the message shown, the rethrow, the
\* outer catch and the finally block.
ReportContractError ==
    /\ run.pc = "caught"
    /\ OuterCatch(errorMessageOf(run.contractError))
    /\ ChainUnchanged

NextErrorReport == ReportContractError

SpecErrorReport == InitErrorReport /\ [][NextErrorReport]_vars

----------------------------------------------------------------------------
(* Properties *)

\* The signature the claimed account of `message` makes over it.
SignatureOfClaimedAccount(message) ==
    signMessage(message.address_, messageHashOf(message))

\* C1: at-most-once acceptance.  Over every sequence and interleaving of
\* authenticate calls and at every block time, no messageHash is accepted
\* twice: a hash that was accepted once is never accepted again, also after
\* the message's expiresAt has passed.
C1_AtMostOnceAcceptance ==
    \A i, j \in 1..Len(accepted) : accepted[i] = accepted[j] => i = j

\* A message that was accepted is submitted again after its expiresAt, with
\* the signature of its claimed account, and is rejected.
C1_Witness ==
    /\ last.made
    /\ last.wasUsed
    /\ last.timestamp > last.message.expiresAt
    /\ last.signature = SignatureOfClaimedAccount(last.message)
    /\ ~last.ok
    /\ \E i \in 1..Len(accepted) : accepted[i] = messageHashOf(last.message)

\* C2: of N transactions carrying the identical (message, signature) pair,
\* each mined while the pair is valid (timing, chain and signature pass),
\* the first one mined while the hash is unused is accepted and every other
\* one is rejected with 'Message already used', in every order in which the
\* chain mines them among other calls and block changes; no two of them are
\* accepted.
C2_ConcurrentIdenticalCalls ==
    (/\ pending.count > 0 \/ Len(results) > 0
     /\ pending.signature = SignatureOfClaimedAccount(pending.message)
     /\ pending.message.chainId = chainid
     /\ pending.message.expiresAt - pending.message.issuedAt <= 300
     /\ \A i \in 1..Len(results) :
           /\ pending.message.issuedAt <= results[i].timestamp
           /\ results[i].timestamp <= pending.message.expiresAt)
    => /\ \A i \in 1..Len(results) :
             IF i = 1 /\ ~results[1].wasUsed
             THEN results[i].ok
             ELSE ~results[i].ok /\ results[i].reason = "Message already used"
       /\ Cardinality({i \in 1..Len(results) : results[i].ok}) <= 1

\* A batch of three identical valid transactions is completely mined: one
\* accepted, two rejected as replays.
C2_Witness ==
    /\ pending.count = 0
    /\ Len(results) = 3
    /\ results[1].ok
    /\ results[2].reason = "Message already used"
    /\ results[3].reason = "Message already used"
    /\ pending.signature = SignatureOfClaimedAccount(pending.message)

\* C3: a valid pair submitted for the first time is accepted, and the
\* identical pair submitted again, in a block in which its timing still
\* passes, is rejected with 'Message already used'.
C3_AcceptedThenReplay ==
    [][ncalls' = ncalls + 1 =>
          LET m == last'.message
              valid == /\ m.issuedAt <= last'.timestamp
                       /\ last'.timestamp <= m.expiresAt
                       /\ m.expiresAt - m.issuedAt <= 300
                       /\ m.chainId = last'.chain
                       /\ last'.signature = SignatureOfClaimedAccount(m)
          IN  /\ (valid /\ ncalls = 0) => last'.ok
              /\ (valid /\ last.made /\ last.ok /\ last.message = m
                   /\ last.signature = last'.signature)
                   => (~last'.ok /\ last'.reason = "Message already used")]_vars

\* The second of two calls carries the pair the first one was accepted with
\* and is rejected as a replay.
C3_Witness ==
    /\ ncalls = 2
    /\ accepted = <<messageHashOf(last.message)>>
    /\ last.signature = SignatureOfClaimedAccount(last.message)
    /\ ~last.ok
    /\ last.reason = "Message already used"

\* C4: isMessageUsed(id) is true exactly for the hashes of the messages an
\* earlier authenticate call accepted; the entry is absent before the
\* accepting call and no rejected call inserts one.
C4_UsedIffAccepted ==
    /\ \A message \in Messages \cup LedgerMessages :
          isMessageUsed(usedMessages, messageHashOf(message))
          <=> \E i \in 1..Len(accepted) : accepted[i] = messageHashOf(message)
    /\ \A id \in usedMessages : \E i \in 1..Len(accepted) : accepted[i] = id
    /\ (last.made /\ last.ok) => ~last.wasUsed

\* One message is consumed, and the last call, for another message, was
\* rejected for its signature and left no entry.
C4_Witness ==
    /\ Len(accepted) = 1
    /\ isMessageUsed(usedMessages, accepted[1])
    /\ last.made
    /\ last.reason = "Invalid signature"
    /\ ~isMessageUsed(usedMessages, messageHashOf(last.message))

\* C5: authenticate accepts exactly when issuedAt <= now <= expiresAt,
\* expiresAt - issuedAt <= 300, the message's chainId is the chain's, the
\* hash is not in the ledger and the signature is the claimed account's
\* over the message.
C5_AcceptedIffAllChecksPass ==
    last.made =>
        (last.ok <=>
            /\ last.message.issuedAt <= last.timestamp
            /\ last.timestamp <= last.message.expiresAt
            /\ last.message.expiresAt - last.message.issuedAt <= 300
            /\ last.message.chainId = last.chain
            /\ ~last.wasUsed
            /\ last.signature = SignatureOfClaimedAccount(last.message))

\* A first submission with issuedAt = now - 10 and expiresAt = now + 290,
\* signed by the claimed account for the chain, is accepted.
C5_Witness ==
    /\ ncalls = 1
    /\ last.ok
    /\ last.message.issuedAt = last.timestamp - 10
    /\ last.message.expiresAt = last.timestamp + 290
    /\ last.message.chainId = HardhatChainId
    /\ last.signature = SignatureOfClaimedAccount(last.message)

\* C6: a call with now > expiresAt and now >= issuedAt is rejected with
\* 'Message expired', whatever its window, chain, ledger entry and
\* signature are.
C6_ExpiredRejected ==
    (/\ last.made
     /\ last.timestamp > last.message.expiresAt
     /\ last.timestamp >= last.message.issuedAt)
    => (~last.ok /\ last.reason = "Message expired")

\* The message issuedAt = now - 600, expiresAt = now - 300 is rejected as
\* expired.
C6_Witness ==
    /\ last.made
    /\ last.message.issuedAt = last.timestamp - 600
    /\ last.message.expiresAt = last.timestamp - 300
    /\ ~last.ok
    /\ last.reason = "Message expired"

\* C7: a call with now < issuedAt is rejected with 'Message not yet valid',
\* also when the expiry, window, chain, replay or signature check would
\* fail as well.
C7_NotYetValidRejected ==
    (last.made /\ last.timestamp < last.message.issuedAt)
    => (~last.ok /\ last.reason = "Message not yet valid")

\* The message issuedAt = now + 300, expiresAt = now + 600 is rejected as
\* not yet valid.
C7_Witness ==
    /\ last.made
    /\ last.message.issuedAt = last.timestamp + 300
    /\ last.message.expiresAt = last.timestamp + 600
    /\ ~last.ok
    /\ last.reason = "Message not yet valid"

\* C8: a call with issuedAt <= now <= expiresAt and a window longer than
\* 300 seconds is rejected with 'Expiry too long', whatever its chain,
\* ledger entry and signature are; every accepted message has a window of
\* at most 300 seconds.
C8_WindowTooLongRejected ==
    /\ (/\ last.made
         /\ last.message.issuedAt <= last.timestamp
         /\ last.timestamp <= last.message.expiresAt
         /\ last.message.expiresAt - last.message.issuedAt > 300)
        => (~last.ok /\ last.reason = "Expiry too long")
    /\ (last.made /\ last.ok)
        => last.message.expiresAt - last.message.issuedAt <= 300

\* The message issuedAt = now, expiresAt = now + 3600 is rejected for its
\* window.
C8_Witness ==
    /\ last.made
    /\ last.message.issuedAt = last.timestamp
    /\ last.message.expiresAt = last.timestamp + 3600
    /\ ~last.ok
    /\ last.reason = "Expiry too long"

\* C9: a message for another chain is never accepted, and when its timing
\* checks pass it is rejected with 'Invalid chain', whatever its ledger
\* entry and signature are.
C9_WrongNetworkRejected ==
    (last.made /\ last.message.chainId # last.chain)
    => /\ ~last.ok
       /\ (/\ last.message.issuedAt <= last.timestamp
            /\ last.timestamp <= last.message.expiresAt
            /\ last.message.expiresAt - last.message.issuedAt <= 300)
           => last.reason = "Invalid chain"

\* A message for another chain that is valid otherwise is rejected with
\* 'Invalid chain'.
C9_Witness ==
    /\ last.made
    /\ last.message.chainId = MainnetChainId
    /\ last.chain = HardhatChainId
    /\ last.signature = SignatureOfClaimedAccount(last.message)
    /\ ~last.wasUsed
    /\ ~last.ok
    /\ last.reason = "Invalid chain"

\* C10: a message with valid timing and chain, not yet consumed, whose
\* signature recovers to another account than the claimed one is rejected
\* with 'Invalid signature' and is not in the ledger afterwards.
C10_WrongSignerRejected ==
    (/\ last.made
     /\ last.message.issuedAt <= last.timestamp
     /\ last.timestamp <= last.message.expiresAt
     /\ last.message.expiresAt - last.message.issuedAt <= 300
     /\ last.message.chainId = last.chain
     /\ ~last.wasUsed
     /\ last.signature # MalformedSignature
     /\ last.signature # SignatureOfClaimedAccount(last.message))
    => /\ ~last.ok
       /\ last.reason = "Invalid signature"
       /\ ~isMessageUsed(usedMessages, messageHashOf(last.message))

\* The attacker signs a message that claims the user's account.
C10_Witness ==
    /\ last.made
    /\ last.message.address_ = "user"
    /\ last.signature = signMessage("attacker", messageHashOf(last.message))
    /\ ~last.ok
    /\ last.reason = "Invalid signature"
    /\ ~isMessageUsed(usedMessages, messageHashOf(last.message))

\* The call recorded in `last` passes the timing and chain checks.
LastPassesTimingAndChain ==
    /\ last.message.issuedAt <= last.timestamp
    /\ last.timestamp <= last.message.expiresAt
    /\ last.message.expiresAt - last.message.issuedAt <= 300
    /\ last.message.chainId = last.chain

SixReasons ==
    {"Message not yet valid", "Message expired", "Expiry too long",
     "Invalid chain", "Message already used", "Invalid signature"}

\* C11: a malformed signature on a message that passes the timing, chain
\* and replay checks is rejected with 'Invalid signature', and every
\* rejection carries one of the six reasons.
C11_MalformedIsInvalidSignature ==
    (last.made /\ ~last.ok)
    => /\ last.reason \in SixReasons
       /\ (/\ LastPassesTimingAndChain
            /\ ~last.wasUsed
            /\ last.signature = MalformedSignature)
           => last.reason = "Invalid signature"

\* C12: the ledger is monotonic.  No step of the contract (authenticate,
\* isMessageUsed, transferOwnership, renounceOwnership, a new block) removes
\* a hash from usedMessages.
C12_LedgerMonotonic ==
    [][usedMessages \subseteq usedMessages']_vars

\* Two messages are consumed, the ownership has changed hands and the
\* ledger has been queried.
C12_Witness ==
    /\ Cardinality(usedMessages) = 2
    /\ owner # Deployer
    /\ query.made

\* C13: a pair rejected for a reason other than 'Message already used' and
\* submitted again at the same block time is rejected with the same reason;
\* neither rejected call marks the hash: the second finds the ledger entry
\* as the first found it and leaves it so.
C13_RejectionIdempotent ==
    (/\ last.made
     /\ last.previous.made
     /\ ~last.previous.ok
     /\ last.previous.reason # "Message already used"
     /\ last.previous.timestamp = last.timestamp)
    => /\ ~last.ok
       /\ last.reason = last.previous.reason
       /\ last.wasUsed = last.previous.wasUsed
       /\ isMessageUsed(usedMessages, messageHashOf(last.message)) = last.wasUsed

\* A pair rejected for its signature is submitted again in the same block
\* and rejected for its signature again.
C13_Witness ==
    /\ last.made
    /\ last.previous.made
    /\ last.previous.reason = "Invalid signature"
    /\ last.previous.timestamp = last.timestamp
    /\ last.reason = "Invalid signature"
    /\ ~last.wasUsed
    /\ ~isMessageUsed(usedMessages, messageHashOf(last.message))

\* C14 (as claimed): a pair that was rejected, for any reason, is rejected
\* when it is submitted again, at every later block time.
C14_RejectedPermanently ==
    (last.made /\ last.previous.made /\ ~last.previous.ok) => ~last.ok

\* C14 (amended): a pair that was rejected for a reason other than
\* 'Message not yet valid' is rejected when it is submitted again, at every
\* later block time.
C14_RejectedPermanentlyUnlessNotYetValid ==
    (/\ last.made
     /\ last.previous.made
     /\ ~last.previous.ok
     /\ last.previous.reason # "Message not yet valid")
    => ~last.ok

\* A pair rejected for its window is submitted again in a later block and
\* rejected again.
C14_Witness ==
    /\ last.made
    /\ last.previous.made
    /\ last.previous.reason = "Expiry too long"
    /\ last.previous.timestamp < last.timestamp
    /\ ~last.ok

\* C15: a consumed message whose timing and chain checks pass is rejected
\* with 'Message already used' whatever signature comes with it, also a
\* wrong signer's or a malformed one.
C15_ReplayBeforeSignature ==
    (last.made /\ LastPassesTimingAndChain /\ last.wasUsed)
    => (~last.ok /\ last.reason = "Message already used")

\* A consumed message is submitted with a byte string that is no signature
\* and is rejected as a replay.
C15_Witness ==
    /\ last.made
    /\ last.wasUsed
    /\ last.signature = MalformedSignature
    /\ ~last.ok
    /\ last.reason = "Message already used"

\* C16 (as claimed): a submission that passes the timing, chain and replay
\* checks with a signature that does not recover to the claimed account
\* leaves the message's hash marked in the ledger.
C16_MarkWithoutValidSignature ==
    (/\ last.made
     /\ LastPassesTimingAndChain
     /\ ~last.wasUsed
     /\ last.signature # SignatureOfClaimedAccount(last.message))
    => isMessageUsed(usedMessages, messageHashOf(last.message))

\* C16 (amended): a hash is marked only by a call whose signature recovers
\* to the claimed account and that is accepted; every marked hash was
\* accepted.
C16_MarkOnlyWithValidSignature ==
    /\ (/\ last.made
         /\ ~last.wasUsed
         /\ isMessageUsed(usedMessages, messageHashOf(last.message)))
        => /\ last.ok
           /\ last.signature = SignatureOfClaimedAccount(last.message)
    /\ \A id \in usedMessages : \E i \in 1..Len(accepted) : accepted[i] = id

\* A message that passes the timing, chain and replay checks comes with a
\* signature over another message; it is rejected and its hash stays
\* unmarked.
C16_Witness ==
    /\ last.made
    /\ LastPassesTimingAndChain
    /\ ~last.wasUsed
    /\ last.signature =
          signMessage(last.message.address_, messageHashOf(OtherNonce(last.message)))
    /\ ~last.ok
    /\ ~isMessageUsed(usedMessages, messageHashOf(last.message))

\* C17: an accepted call appends exactly one AuthSuccess event, whose user
\* is the claimed account (the signer), whose messageHash is the hash the
\* call marks and whose timestamp is the block time of the call; no other
\* step appends an event.
C17_SuccessRecord ==
    [][IF ncalls' = ncalls + 1 /\ last'.ok
       THEN /\ events' = Append(events,
                   [name |-> "AuthSuccess",
                    user |-> last'.message.address_,
                    messageHash |-> messageHashOf(last'.message),
                    timestamp |-> last'.timestamp])
            /\ last'.timestamp = now
            /\ last'.signature.signer = last'.message.address_
            /\ messageHashOf(last'.message) \in usedMessages' \ usedMessages
       ELSE events' = events]_vars

\* One call was rejected and one accepted, and the log holds the one event
\* of the accepted call.
C17_Witness ==
    /\ ncalls = 2
    /\ last.ok
    /\ Len(events) = 1
    /\ events[1].user = last.message.address_
    /\ events[1].messageHash = messageHashOf(last.message)
    /\ events[1].timestamp = last.timestamp

\* C18: a call of isMessageUsed leaves the ledger, the event log and the
\* owner as they are, and the outcome of every authenticate call is the
\* same after it as before it.
C18_QueryReadOnly ==
    [][query'.count = query.count + 1 =>
          /\ usedMessages' = usedMessages
          /\ events' = events
          /\ owner' = owner
          /\ \A sender \in Senders, message \in LedgerMessages :
                \A signature \in LedgerSignaturesFor(message) :
                   authenticate(sender, message, signature,
                                usedMessages', now', chainid')
                   = authenticate(sender, message, signature,
                                  usedMessages, now, chainid)]_vars

\* The ledger was asked about a message before it was consumed, answered
\* no, and the message was accepted afterwards.
C18_Witness ==
    /\ query.made
    /\ ~query.returned
    /\ last.made
    /\ last.ok
    /\ query.id = messageHashOf(last.message)

\* C19: the hash a client computes for a message is the hash the contract
\* computes for it, so it is the key under which an accepted message is
\* marked and under which isMessageUsed finds it.
C19_ClientHashIsContractHash ==
    /\ \A message \in Messages :
          clientMessageHash(message) = messageHashOf(message)
    /\ (last.made /\ last.ok)
        => isMessageUsed(usedMessages, clientMessageHash(last.message))
    /\ query.made
        => /\ query.id = messageHashOf(query.message)
           /\ query.returned
               => \E i \in 1..Len(accepted) :
                     accepted[i] = messageHashOf(query.message)

\* A message is accepted and a client that asks isMessageUsed with the hash
\* it computed gets yes.
C19_Witness ==
    /\ last.made
    /\ last.ok
    /\ query.made
    /\ query.message = last.message
    /\ query.returned

\* C20: the status 'Successfully authenticated!' is set only when the
\* receipt has status 1, and a signAndSend invocation whose transaction is
\* refused before it is sent, is mined with another status, or that fails
\* before sending ends with a status of type error that starts with
\* 'Transaction failed: '.
C20_SuccessOnlyForStatusOne ==
    [][/\ (ui'.status = SuccessStatus /\ ui.status # SuccessStatus)
           => (run.pc = "mined" /\ run.receipt.status = 1)
       /\ (run.pc # "idle" /\ run'.pc = "idle")
           => IF run.pc = "mined" /\ run.receipt.status = 1
              THEN ui'.status = SuccessStatus
              ELSE /\ ui'.status.type = "error"
                   /\ ui'.status.message[1] = "Transaction failed: "
                   /\ ui'.status # SuccessStatus]_vars

\* A transaction was mined with status 0, the receipt came back, and the
\* invocation ended with an error status.
C20_Witness ==
    /\ run.pc = "idle"
    /\ run.receipt.status = 0
    /\ last.made
    /\ ~last.ok
    /\ ui.status.type = "error"
    /\ ui.status.message[1] = "Transaction failed: "
    /\ ~ui.isLoading

\* The message the documentation gives for each revert reason.
DocumentedMessage ==
    [r \in {"Message expired", "Message not yet valid", "Invalid chain",
            "Message already used", "Invalid signature", "Expiry too long"} |->
        CASE r = "Message expired" ->
                <<"Message expired - the authentication window has passed">>
          [] r = "Message not yet valid" ->
                <<"Message not yet valid - issued time is in the future">>
          [] r = "Invalid chain" ->
                <<"Invalid chain - message was signed for a different blockchain">>
          [] r = "Message already used" ->
                <<"Message already used - this is a replay attack attempt">>
          [] r = "Invalid signature" ->
                <<"Invalid signature - signature doesn't match the message or address">>
          [] r = "Expiry too long" ->
                <<"Expiry too long - maximum allowed is 5 minutes">>]

\* The reasons among the six that the error message names.
NamedIn(message) == {r \in DOMAIN DocumentedMessage : Includes(message, r)}

VerdictOnSend ==
    authenticate(ConnectedAccount, run.message, run.signature, usedMessages,
                 now, chainid)

\* C22 (as claimed): with 'Replay Attack' selected and no message stored,
\* the first attempt is accepted and the second attempt, the scenario
\* unchanged, is not accepted (it is rejected as a replay).
C22_SecondReplayAttemptRejected ==
    (/\ run.pc = "mined"
     /\ run.attempts = 2
     /\ run.testScenario = "replay_attack"
     /\ ui.lastMessage = Null
     /\ Len(accepted) - (IF last.ok THEN 1 ELSE 0) = 1)
    => ~last.ok

\* C23 (as claimed): an invocation in the 'Replay Attack' scenario that
\* reuses the stored message and signature is rejected by the contract with
\* 'Message already used'.
C23_StoredMessageIsReplay ==
    (run.pc = "send"
     /\ ReusesLast(run.testScenario, run.lastMessage, run.lastSignature))
    => (~VerdictOnSend.ok /\ VerdictOnSend.reason = "Message already used")

\* C23 (amended): such an invocation is rejected with 'Message already
\* used' as long as the block time has not passed the stored message's
\* expiresAt, and with 'Message expired' afterwards.
C23_StoredMessageIsReplayUntilExpiry ==
    (run.pc = "send"
     /\ ReusesLast(run.testScenario, run.lastMessage, run.lastSignature))
    => /\ run.message = run.lastMessage
       /\ ~VerdictOnSend.ok
       /\ VerdictOnSend.reason = IF now <= run.message.expiresAt
                                 THEN "Message already used"
                                 ELSE "Message expired"

\* After an accepted attempt stored its message, an attempt in the 'Replay
\* Attack' scenario has ended with the replay message.
C23_Witness ==
    /\ run.pc = "idle"
    /\ run.attempts = 2
    /\ ui.testScenario = "replay_attack"
    /\ ui.lastMessage # Null
    /\ isMessageUsed(usedMessages, clientMessageHash(ui.lastMessage))
    /\ ui.status =
          FailedStatus(<<"Message already used - this is a replay attack attempt">>)

\* C24 (as claimed): with the block time equal to the client's clock, the
\* 'Wrong Chain ID' scenario is rejected with 'Invalid chain' and the
\* 'Invalid Signature' scenario with 'Invalid signature', for every custom
\* expiry.
C24_ChainAndSignatureScenarios ==
    (/\ run.pc = "send"
     /\ run.testScenario \in {"wrong_chain", "invalid_signature"}
     /\ now = run.message.issuedAt)
    => /\ ~VerdictOnSend.ok
       /\ VerdictOnSend.reason = IF run.testScenario = "wrong_chain"
                                 THEN "Invalid chain" ELSE "Invalid signature"

\* C24 (amended): so it is for a custom expiry of at most 5 minutes; for a
\* longer one both scenarios are rejected with 'Expiry too long'.
C24_ChainAndSignatureScenariosWithinTimeout ==
    (/\ run.pc = "send"
     /\ run.testScenario \in {"wrong_chain", "invalid_signature"}
     /\ now = run.message.issuedAt)
    => /\ ~VerdictOnSend.ok
       /\ VerdictOnSend.reason =
             IF run.customExpiryMinutes > 5 THEN "Expiry too long"
             ELSE IF run.testScenario = "wrong_chain" THEN "Invalid chain"
             ELSE "Invalid signature"

\* The 'Invalid Signature' scenario with a custom expiry of one minute is
\* about to be sent in the block of the client's clock.
C24_Witness ==
    /\ run.pc = "send"
    /\ run.testScenario = "invalid_signature"
    /\ run.customExpiryMinutes = 1
    /\ now = run.message.issuedAt
    /\ run.message.address_ = InvalidSignatureAddress
    /\ VerdictOnSend.reason = "Invalid signature"

\* C25: with the block time equal to the client's clock, the 'Expired
\* Message' scenario is rejected with 'Message expired' and the 'Future
\* Message' scenario with 'Message not yet valid', whatever the custom
\* expiry is and whichever account is connected and signs.
C25_TimingScenarios ==
    /\ (run.pc = "send" /\ run.testScenario = "expired"
            /\ now = run.message.issuedAt + 600)
        => /\ run.message.expiresAt = now - 300
           /\ \A a \in Accounts :
                 LET message == [run.message EXCEPT !.address_ = a]
                     r == authenticate(a, message,
                             signMessage(a, clientMessageHash(message)),
                             usedMessages, now, chainid)
                 IN  ~r.ok /\ r.reason = "Message expired"
    /\ (run.pc = "send" /\ run.testScenario = "future"
            /\ now = run.message.issuedAt - 300)
        => /\ run.message.expiresAt = now + 600
           /\ \A a \in Accounts :
                 LET message == [run.message EXCEPT !.address_ = a]
                     r == authenticate(a, message,
                             signMessage(a, clientMessageHash(message)),
                             usedMessages, now, chainid)
                 IN  ~r.ok /\ r.reason = "Message not yet valid"

\* The 'Future Message' scenario with a custom expiry of 60 minutes is about
\* to be sent in the block of the client's clock.
C25_Witness ==
    /\ run.pc = "send"
    /\ run.testScenario = "future"
    /\ run.customExpiryMinutes = 60
    /\ now = run.message.issuedAt - 300
    /\ VerdictOnSend.reason = "Message not yet valid"

\* C26 (as claimed): the call of the demo script (issuedAt = now,
\* expiresAt = issuedAt + 3600, the chain's id, signed by the user account,
\* sent by the deployer, to a contract that has not seen the message) is
\* accepted and isMessageUsed is true for the client's hash afterwards.
C26_DemoAuthenticationWorks ==
    (/\ last.made
     /\ last.sender = Deployer
     /\ last.message.address_ = "user"
     /\ <<last.message.issuedAt, last.message.expiresAt>>
           = DemoWindow(last.timestamp)
     /\ last.message.chainId = last.chain
     /\ last.signature =
           signMessage("user", clientMessageHash(last.message))
     /\ ~last.wasUsed)
    => /\ last.ok
       /\ isMessageUsed(usedMessages, clientMessageHash(last.message))

\* C27: the reason of a rejected call is that of the first failing check in
\* the order issuedAt, expiresAt, window, chain, ledger, signature, whatever
\* the later checks would say; a call that fails none is accepted.
C27_FirstFailingCheck ==
    last.made =>
        IF last.timestamp < last.message.issuedAt
            THEN ~last.ok /\ last.reason = "Message not yet valid"
        ELSE IF last.timestamp > last.message.expiresAt
            THEN ~last.ok /\ last.reason = "Message expired"
        ELSE IF last.message.expiresAt - last.message.issuedAt > 300
            THEN ~last.ok /\ last.reason = "Expiry too long"
        ELSE IF last.message.chainId # last.chain
            THEN ~last.ok /\ last.reason = "Invalid chain"
        ELSE IF last.wasUsed
            THEN ~last.ok /\ last.reason = "Message already used"
        ELSE IF last.signature # SignatureOfClaimedAccount(last.message)
            THEN ~last.ok /\ last.reason \in {"Invalid signature", RecoverError}
        ELSE last.ok

\* A call that fails the issuedAt, window, chain and signature checks at
\* once is rejected as not yet valid.
C27_Witness ==
    /\ last.made
    /\ last.timestamp < last.message.issuedAt
    /\ last.message.expiresAt - last.message.issuedAt > 300
    /\ last.message.chainId # last.chain
    /\ last.signature = MalformedSignature
    /\ ~last.ok
    /\ last.reason = "Message not yet valid"

\* C28: the three timing bounds are inclusive.  A call at now = issuedAt or
\* at now = expiresAt passes its timing check, a window of exactly 300
\* seconds passes the window check, and such a call is accepted when chain,
\* ledger and signature are right; a window of 301 seconds that passes the
\* two timing checks is rejected with 'Expiry too long'.
C28_InclusiveBounds ==
    /\ (/\ last.made
         /\ last.timestamp = last.message.issuedAt
         /\ last.timestamp <= last.message.expiresAt)
        => last.reason \notin {"Message not yet valid", "Message expired"}
    /\ (/\ last.made
         /\ last.timestamp = last.message.expiresAt
         /\ last.timestamp >= last.message.issuedAt)
        => last.reason \notin {"Message not yet valid", "Message expired"}
    /\ (/\ last.made
         /\ last.message.expiresAt - last.message.issuedAt = 300
         /\ (\/ last.timestamp = last.message.issuedAt
             \/ last.timestamp = last.message.expiresAt)
         /\ last.message.chainId = last.chain
         /\ ~last.wasUsed
         /\ last.signature = SignatureOfClaimedAccount(last.message))
        => last.ok
    /\ (/\ last.made
         /\ last.message.issuedAt <= last.timestamp
         /\ last.timestamp <= last.message.expiresAt
         /\ last.message.expiresAt - last.message.issuedAt = 301)
        => (~last.ok /\ last.reason = "Expiry too long")

\* A message with a window of exactly 300 seconds is accepted in the block
\* of its expiresAt.
C28_Witness ==
    /\ last.made
    /\ last.timestamp = last.message.expiresAt
    /\ last.message.expiresAt - last.message.issuedAt = 300
    /\ last.ok

\* C29: a rejected authenticate call leaves the ledger and the owner as
\* they were and appends no event, also when it fails at the signature
\* check, after the replay check; nothing of it is recorded as an
\* acceptance.
C29_RejectedCallChangesNothing ==
    [][(ncalls' = ncalls + 1 /\ ~last'.ok) =>
          /\ usedMessages' = usedMessages
          /\ owner' = owner
          /\ events' = events
          /\ accepted' = accepted
          /\ ~last'.wasUsed
              => ~isMessageUsed(usedMessages', messageHashOf(last'.message))]_vars

\* A call that passed the replay check is rejected for its signature and
\* its hash is unmarked; the ledger holds another message and the owner has
\* changed before.
C29_Witness ==
    /\ last.made
    /\ ~last.ok
    /\ last.reason = "Invalid signature"
    /\ ~last.wasUsed
    /\ ~isMessageUsed(usedMessages, messageHashOf(last.message))
    /\ Cardinality(usedMessages) = 1
    /\ Len(events) = 1
    /\ owner # Deployer

\* C30: the subtraction of the window check does not underflow.  No call
\* ends in an arithmetic panic, and a message with expiresAt < issuedAt is
\* rejected with 'Message not yet valid' or 'Message expired'.
C30_NoUnderflow ==
    last.made =>
        /\ last.reason # "Panic(0x11)"
        /\ last.message.expiresAt < last.message.issuedAt
            => /\ ~last.ok
               /\ last.reason = IF last.timestamp < last.message.issuedAt
                                THEN "Message not yet valid"
                                ELSE "Message expired"

\* A message that expires before it is issued is submitted once its
\* issuedAt has come, and is rejected as expired.
C30_Witness ==
    /\ last.made
    /\ last.message.expiresAt < last.message.issuedAt
    /\ last.timestamp >= last.message.issuedAt
    /\ ~last.ok
    /\ last.reason = "Message expired"

\* The accounts that may send the transaction: the accounts messages
\* claim, the owner and a third party.
AnySender == Accounts \cup Senders

\* The ledger as the last executed call found it: an accepted call added
\* the last accepted hash, a rejected call added nothing.
LedgerBefore ==
    IF last.made /\ last.ok
    THEN {accepted[i] : i \in 1..(Len(accepted) - 1)}
    ELSE usedMessages

\* The events the last executed call emitted.
LastEmitted ==
    IF last.made /\ last.ok THEN <<events[Len(events)]>> ELSE <<>>

\* C31: the outcome of authenticate does not depend on the sender.  The
\* message and signature of the last executed call, submitted by any other
\* account (the claimed account, the owner, a third party) to the same
\* ledger at the same block time on the same chain, get the same verdict,
\* the same reason, the same ledger change and the same event as the call
\* had.
C31_SenderIndependent ==
    last.made =>
        \A sender \in AnySender :
           LET r == authenticate(sender, last.message, last.signature,
                                 LedgerBefore, last.timestamp, last.chain)
           IN  /\ r.ok = last.ok
               /\ r.reason = last.reason
               /\ r.usedMessages = usedMessages
               /\ r.emitted = LastEmitted

\* A third party submits the user's message with the user's signature and
\* the call is accepted.
C31_Witness ==
    /\ last.made
    /\ last.ok
    /\ last.sender = "attacker"
    /\ last.message.address_ = "user"
    /\ last.signature = SignatureOfClaimedAccount(last.message)

\* C32: ledger entries are independent per hash.  An accepted call marks
\* the hash of its message and changes the entry of no other message,
\* messages that differ have different hashes, a call is rejected with
\* 'Message already used' only when its own hash was in the ledger, and a
\* message whose own checks pass is accepted whatever other hashes the
\* ledger holds.
C32_EntriesIndependent ==
    last.made =>
        /\ \A other \in Messages :
              other # last.message
              => /\ messageHashOf(other) # messageHashOf(last.message)
                 /\ isMessageUsed(usedMessages, messageHashOf(other))
                      = isMessageUsed(LedgerBefore, messageHashOf(other))
        /\ last.ok
            => usedMessages = LedgerBefore \cup {messageHashOf(last.message)}
        /\ last.reason = "Message already used"
            => messageHashOf(last.message) \in LedgerBefore
        /\ (/\ last.message.issuedAt <= last.timestamp
            /\ last.timestamp <= last.message.expiresAt
            /\ last.message.expiresAt - last.message.issuedAt <= 300
            /\ last.message.chainId = last.chain
            /\ last.signature = SignatureOfClaimedAccount(last.message)
            /\ messageHashOf(last.message) \notin LedgerBefore)
            => last.ok

\* After a message was consumed, the message that differs from it only in
\* the nonce is accepted; the ledger holds both.
C32_Witness ==
    /\ ncalls = 2
    /\ last.ok
    /\ messageHashOf(OtherNonce(last.message)) \in LedgerBefore
    /\ isMessageUsed(usedMessages, messageHashOf(last.message))
    /\ Cardinality(usedMessages) = 2

\* The messages that differ from `message` in exactly one field.
FieldVariants(message) ==
    {[message EXCEPT !.domain = "evil.example"],
     [message EXCEPT !.address_ = CHOOSE a \in Accounts : a # message.address_],
     [message EXCEPT !.statement = "Another statement."],
     [message EXCEPT !.uri = "http://evil.example"],
     [message EXCEPT !.chainId = CHOOSE c \in ChainIds : c # message.chainId],
     OtherNonce(message),
     [message EXCEPT !.issuedAt = @ + 1],
     [message EXCEPT !.expiresAt = @ + 1]}

\* C33: a signature is bound to every field.  A signature by any account
\* over a message that differs in one field from the message of the last
\* executed call is not accepted for that message from the ledger, block
\* time and chain the call found, and an accepted call carries the claimed
\* account's signature over the submitted message.
C33_SignatureBoundToFields ==
    last.made =>
        /\ \A variant \in FieldVariants(last.message), a \in Accounts :
              ~authenticate(last.sender, last.message,
                            signMessage(a, messageHashOf(variant)),
                            LedgerBefore, last.timestamp, last.chain).ok
        /\ last.ok
            => /\ last.signature.signer = last.message.address_
               /\ last.signature.digest =
                     ethSignedMessageHashOf(messageHashOf(last.message))

\* A message that passes every other check comes with the claimed
\* account's signature over the message with the other nonce and is
\* rejected for its signature.
C33_Witness ==
    /\ last.made
    /\ ~last.ok
    /\ last.reason = "Invalid signature"
    /\ last.signature =
          signMessage(last.message.address_, messageHashOf(OtherNonce(last.message)))
    /\ last.message.chainId = last.chain
    /\ ~last.wasUsed

\* C34: between signAndSend invocations, when lastMessage and lastSignature
\* are both set, lastSignature is the connected account's signature over
\* lastMessage and the contract has accepted that message.
C34_LastPairIsAcceptedAuthentication ==
    (/\ run.pc = "idle"
     /\ ui.lastMessage # Null
     /\ ui.lastSignature # Null)
    => /\ ui.lastSignature =
             signMessage(ConnectedAccount, clientMessageHash(ui.lastMessage))
       /\ isMessageUsed(usedMessages, clientMessageHash(ui.lastMessage))

\* C35: an invocation of signAndSend that set isLoading sets it back:
\* isLoading does not stay true, it is true exactly while an invocation is
\* running, and every step that ends an invocation leaves it false.  An
\* invocation without provider or contract address returns at once with
\* the connect status and leaves isLoading as it was.
C35_LoadingReset ==
    /\ ui.isLoading ~> ~ui.isLoading
    /\ [](ui.isLoading <=> run.pc # "idle")
    /\ [][(run.pc # "idle" /\ run'.pc = "idle") => ~ui'.isLoading]_vars
    /\ [][(run.pc = "idle" /\ run'.attempts = run.attempts + 1
              /\ (~ui.hasProvider \/ ~ui.hasContractAddress))
          => /\ run'.pc = "idle"
             /\ ui'.isLoading = ui.isLoading
             /\ ui'.status = ConnectStatus]_vars

\* An invocation that set isLoading ended with the wallet refusing the
\* signature, and isLoading is false again.
C35_Witness ==
    /\ run.pc = "idle"
    /\ run.attempts > 0
    /\ ui.hasProvider /\ ui.hasContractAddress
    /\ ui.status = FailedStatus(<<"user rejected action">>)
    /\ ~ui.isLoading

====
